---- MODULE Spec2Model ----
(***************************************************************************)
(* loopback-manager: the assignment ledger (internal/manager/manager.go).  *)
(*                                                                         *)
(* Go strings are modelled as sequences of one-character strings, so that  *)
(* fmt.Sprintf, strings.Split, strings.Fields, strings.HasPrefix and       *)
(* sort.Strings are computed the way the code computes them.  The ledger   *)
(* file and the .env files are byte strings of that kind.                  *)
(***************************************************************************)
EXTENDS Integers, Sequences, FiniteSets, TLC

(***************************************************************************)
(* Bounds of the model.                                                    *)
(***************************************************************************)
\* largest value of ip_range.end the configuration is drawn from
MaxEnd == 12
\* number of commands issued on one Manager after New
MaxOps == 1
MaxEnvLines == 3

(***************************************************************************)
(* Strings.                                                                *)
(***************************************************************************)
\* byte order of the characters the model uses (ASCII order)
Alphabet ==
  << "\n", " ", "#", ".", "/", "0", "1", "2", "3", "4", "5", "6", "7", "8", "9",
     "=", "A", "B", "C", "I", "K", "L", "O", "P", "_", "a", "b", "c", "d" >>

Ord(c) == CHOOSE i \in 1..Len(Alphabet) : Alphabet[i] = c

Digits == << "0", "1", "2", "3", "4", "5", "6", "7", "8", "9" >>

\* unicode.IsSpace restricted to the characters of the model
IsSpace(c) == c \in {" ", "\n", "\t", "\r"}

\* fmt.Sprintf("%d", n) for n >= 0
RECURSIVE Itoa(_)
Itoa(n) == IF n < 10 THEN << Digits[n + 1] >>
           ELSE Itoa(n \div 10) \o << Digits[(n % 10) + 1] >>

\* strings.HasPrefix
HasPrefix(s, p) == Len(s) >= Len(p) /\ SubSeq(s, 1, Len(p)) = p

\* strings.Split(s, sep) for a one-character separator
RECURSIVE Split(_, _)
Split(s, sep) ==
  IF \A i \in 1..Len(s) : s[i] # sep THEN << s >>
  ELSE LET i == CHOOSE j \in 1..Len(s) :
                  s[j] = sep /\ \A h \in 1..(j - 1) : s[h] # sep
       IN  << SubSeq(s, 1, i - 1) >> \o Split(SubSeq(s, i + 1, Len(s)), sep)

\* strings.Join(elems, sep)
RECURSIVE Join(_, _)
Join(elems, sep) ==
  IF Len(elems) = 0 THEN << >>
  ELSE IF Len(elems) = 1 THEN elems[1]
  ELSE elems[1] \o sep \o Join(Tail(elems), sep)

\* strings.TrimSpace
RECURSIVE TrimLeft(_)
TrimLeft(s) == IF Len(s) > 0 /\ IsSpace(s[1]) THEN TrimLeft(Tail(s)) ELSE s

RECURSIVE TrimRight(_)
TrimRight(s) == IF Len(s) > 0 /\ IsSpace(s[Len(s)])
                THEN TrimRight(SubSeq(s, 1, Len(s) - 1)) ELSE s

TrimSpace(s) == TrimRight(TrimLeft(s))

\* strings.Fields: the maximal runs of non-space characters
RECURSIVE Fields(_)
Fields(s) ==
  LET t == TrimLeft(s) IN
  IF Len(t) = 0 THEN << >>
  ELSE LET n == IF \E j \in 1..Len(t) : IsSpace(t[j])
                THEN (CHOOSE j \in 1..Len(t) :
                        IsSpace(t[j]) /\ \A h \in 1..(j - 1) : ~IsSpace(t[h])) - 1
                ELSE Len(t)
       IN  << SubSeq(t, 1, n) >> \o Fields(SubSeq(t, n + 1, Len(t)))

\* the < of Go strings: byte-wise lexicographic order
RECURSIVE StrLess(_, _)
StrLess(a, b) ==
  IF Len(b) = 0 THEN FALSE
  ELSE IF Len(a) = 0 THEN TRUE
  ELSE IF a[1] # b[1] THEN Ord(a[1]) < Ord(b[1])
  ELSE StrLess(Tail(a), Tail(b))

\* insertion of one string into a sorted list
RECURSIVE Insert(_, _)
Insert(x, sorted) ==
  IF Len(sorted) = 0 THEN << x >>
  ELSE IF StrLess(sorted[1], x) THEN << sorted[1] >> \o Insert(x, Tail(sorted))
  ELSE << x >> \o sorted

\* sort.Strings
RECURSIVE SortStrings(_)
SortStrings(lines) ==
  IF Len(lines) = 0 THEN << >> ELSE Insert(lines[1], SortStrings(Tail(lines)))

(***************************************************************************)
(* Configuration (config.Load) and the values the model draws from.        *)
(***************************************************************************)
\* IPRange.Base, the default "127.0.0"
DefaultBase == << "1", "2", "7", ".", "0", ".", "0" >>
\* IPRange.Start, the default
DefaultStart == 10

EmptyStr == << >>
A == << "a" >>
B == << "b" >>
C == << "c" >>
D == << "d" >>
AslashB == << "a", "/", "b" >>
BslashC == << "b", "/", "c" >>

\* fmt.Sprintf("%s/%s", org, repo)
Key(org, repo) == org \o << "/" >> \o repo

\* fmt.Sprintf("%s.%d", Base, i)
CandidateIP(base, i) == base \o << "." >> \o Itoa(i)

\* the directories <BaseDir>/<org>/<repo> that may hold a compose file
DirRepos == { << A, C >>, << A, D >> }

\* the (org, repo) arguments of assign and remove
ArgRepos == DirRepos \cup { << AslashB, C >>, << A, BslashC >> }

\* an address outside the base prefix
ForeignIP == << "1", "0", ".", "0", ".", "0", ".", "1" >>

\* an address with the prefix and a suffix below Start
BelowRangeIP == CandidateIP(DefaultBase, DefaultStart - 1)

\* a string with the prefix and five components
FiveParts == DefaultBase \o << ".", "1", ".", "2" >>

\* the --ip arguments of assign ("" = derive one)
ArgIPs == { EmptyStr, CandidateIP(DefaultBase, 10), CandidateIP(DefaultBase, 11),
            ForeignIP, BelowRangeIP, FiveParts }

NoFile == [exists |-> FALSE, data |-> EmptyStr]
FileOf(data) == [exists |-> TRUE, data |-> data]

\* "<org> <name> <ip>"
Line(org, repo, ip) == org \o << " " >> \o repo \o << " " >> \o ip

\* the ledger files found on disk at start-up
InitFiles ==
  LET ip10 == CandidateIP(DefaultBase, 10)
      ip11 == CandidateIP(DefaultBase, 11)
      nl   == << "\n" >>
  IN { NoFile,
       FileOf(EmptyStr),
       FileOf(Line(A, C, ip10)),
       FileOf(Line(A, C, ip10) \o nl \o Line(A, D, ip11) \o nl),
       FileOf(<< "#", " ", "a" >> \o nl \o nl \o << " " >> \o B
                \o << " ", " " >> \o C \o << " " >> \o ip11 \o << " ", " " >>),
       FileOf(Line(A, C, ip10) \o nl \o Line(A, D, ip10)),
       FileOf(Line(A, D, ForeignIP) \o nl \o << "a", " ", "c" >>),
       FileOf(Line(AslashB, C, ip10) \o nl \o Line(A, C, ip11)) }

(***************************************************************************)
(* Errors returned by the Manager, by the text of their message.           *)
(***************************************************************************)
NoErr == [kind |-> "none", ip |-> EmptyStr, owner |-> EmptyStr]
\* "invalid IP address: %s"
InvalidAddress(ip) == [kind |-> "InvalidAddress", ip |-> ip, owner |-> EmptyStr]
\* "IP %s is already assigned to %s"
AddressConflict(ip, existing) ==
  [kind |-> "AddressConflict", ip |-> ip, owner |-> existing]
\* "no IP assignment found for %s/%s"
NotFound(key) == [kind |-> "NotFound", ip |-> EmptyStr, owner |-> key]
\* "no more available IPs in range"
Exhausted == [kind |-> "Exhausted", ip |-> EmptyStr, owner |-> EmptyStr]
\* an error of ioutil.ReadFile / ioutil.WriteFile
HostQueryFailure == [kind |-> "HostQueryFailure", ip |-> EmptyStr, owner |-> EmptyStr]
IOFailure == [kind |-> "IOFailure", ip |-> EmptyStr, owner |-> EmptyStr]

(***************************************************************************)
(* The ledger: a Go map from "org/name" to ip, as a function.              *)
(***************************************************************************)
EmptyMap == [k \in {} |-> EmptyStr]

\* m[key] = ip
MapSet(m, key, ip) ==
  [k \in (DOMAIN m) \cup {key} |-> IF k = key THEN ip ELSE m[k]]

\* delete(m, key)
MapDelete(m, key) == [k \in (DOMAIN m) \ {key} |-> m[k]]

\* the body of loadAssignments' loop over the lines
RECURSIVE LoadLines(_, _)
LoadLines(lines, m) ==
  IF Len(lines) = 0 THEN m
  ELSE LET line  == TrimSpace(lines[1])
           parts == Fields(line)
       IN  IF line = EmptyStr \/ HasPrefix(line, << "#" >>)
           THEN LoadLines(Tail(lines), m)
           ELSE IF Len(parts) = 3
           THEN LoadLines(Tail(lines), MapSet(m, Key(parts[1], parts[2]), parts[3]))
           ELSE LoadLines(Tail(lines), m)

\* loadAssignments into the empty map New made: the map it leaves and the
\* error it returns (readFault: ioutil.ReadFile fails on an existing file)
loadAssignments(f, readFault) ==
  IF ~f.exists THEN [m |-> EmptyMap, err |-> NoErr]
  ELSE IF readFault THEN [m |-> EmptyMap, err |-> IOFailure]
  ELSE [m |-> LoadLines(Split(f.data, "\n"), EmptyMap), err |-> NoErr]

\* the lines saveAssignments renders, in some iteration order of the map
RECURSIVE RenderLines(_, _)
RenderLines(m, keys) ==
  IF keys = {} THEN << >>
  ELSE LET key   == CHOOSE k \in keys : TRUE
           parts == Split(key, "/")
           rest  == RenderLines(m, keys \ {key})
       IN  IF Len(parts) = 2
           THEN << Line(parts[1], parts[2], m[key]) >> \o rest
           ELSE rest

\* the bytes saveAssignments writes
saveAssignments(m) ==
  Join(SortStrings(RenderLines(m, DOMAIN m)), << "\n" >>)

\* the usedIPs set built from the map's values
UsedIPs(m) == { m[k] : k \in DOMAIN m }

\* getNextAvailableIP with a loop that stops before End
getNextAvailableIP_EndExclusive(m, cfg) ==
  LET free == { i \in cfg.Start..(cfg.End - 1) :
                  CandidateIP(cfg.Base, i) \notin UsedIPs(m) }
  IN  IF free = {} THEN EmptyStr
      ELSE CandidateIP(cfg.Base, CHOOSE i \in free : \A j \in free : i <= j)

\* getNextAvailableIP: "" when every candidate is used
getNextAvailableIP(m, cfg) ==
  LET free == { i \in cfg.Start..cfg.End : CandidateIP(cfg.Base, i) \notin UsedIPs(m) }
  IN  IF free = {} THEN EmptyStr
      ELSE CandidateIP(cfg.Base, CHOOSE i \in free : \A j \in free : i <= j)

\* isValidIP that also wants the last component inside [Start, End]
isValidIP_ChecksRange(ip, cfg) ==
  /\ HasPrefix(ip, cfg.Base \o << "." >>)
  /\ Len(Split(ip, ".")) = 4
  /\ \E n \in cfg.Start..cfg.End : ip = CandidateIP(cfg.Base, n)

isValidIP(ip, cfg) ==
  /\ HasPrefix(ip, cfg.Base \o << "." >>)
  /\ Len(Split(ip, ".")) = 4

\* findRepositoryByIP comparing the key, not the assigned ip, with ip: no match
findRepositoryByIP_ComparesKey(m, ip) ==
  IF \E k \in DOMAIN m : k = ip
  THEN { k \in DOMAIN m : k = ip }
  ELSE { EmptyStr }

\* findRepositoryByIP: the values it can return; the iteration order of a Go
\* map is not fixed, so with several owners any of them may be returned
findRepositoryByIP(m, ip) ==
  IF \E k \in DOMAIN m : m[k] = ip
  THEN { k \in DOMAIN m : m[k] = ip }
  ELSE { EmptyStr }

LoopbackVar == << "L", "O", "O", "P", "B", "A", "C", "K", "_", "I", "P", "=" >>

\* updateEnvFile's loop over the lines of an existing .env
RECURSIVE EnvLines(_, _, _)
EnvLines(lines, newLines, ip) ==
  IF Len(lines) = 0 THEN newLines
  ELSE IF HasPrefix(lines[1], LoopbackVar)
  THEN EnvLines(Tail(lines), Append(newLines, LoopbackVar \o ip), ip)
  ELSE IF lines[1] # EmptyStr \/ Len(newLines) > 0
  THEN EnvLines(Tail(lines), Append(newLines, lines[1]), ip)
  ELSE EnvLines(Tail(lines), newLines, ip)

\* updateEnvFile adding a missing LOOPBACK_IP line at the end, not the top
updateEnvFile_Appends(envFile, ip) ==
  IF envFile.exists
  THEN LET lines    == Split(envFile.data, "\n")
           newLines == EnvLines(lines, << >>, ip)
           found    == \E i \in 1..Len(lines) : HasPrefix(lines[i], LoopbackVar)
       IN  FileOf(Join(IF found THEN newLines
                       ELSE newLines \o << LoopbackVar \o ip >>, << "\n" >>))
  ELSE FileOf(LoopbackVar \o ip \o << "\n" >>)

\* the content updateEnvFile writes, from the .env it found
updateEnvFile(envFile, ip) ==
  IF envFile.exists
  THEN LET lines    == Split(envFile.data, "\n")
           newLines == EnvLines(lines, << >>, ip)
           found    == \E i \in 1..Len(lines) : HasPrefix(lines[i], LoopbackVar)
       IN  FileOf(Join(IF found THEN newLines
                       ELSE << LoopbackVar \o ip >> \o newLines, << "\n" >>))
  ELSE FileOf(LoopbackVar \o ip \o << "\n" >>)

(***************************************************************************)
(* The repository catalog.                                                 *)
(***************************************************************************)
\* the value of m[key] in Go: "" for an absent key
MapGet(m, key) == IF key \in DOMAIN m THEN m[key] ELSE EmptyStr

\* getAllRepositories: the catalog sorted by "org/name"
getAllRepositories(catalog) ==
  LET RECURSIVE Listed(_)
      Listed(rs) == IF rs = {} THEN << >>
                    ELSE LET r == CHOOSE x \in rs : TRUE
                         IN  << Key(r[1], r[2]) >> \o Listed(rs \ {r})
      keys == SortStrings(Listed(catalog))
  IN  [i \in 1..Len(keys) |-> CHOOSE r \in catalog : Key(r[1], r[2]) = keys[i]]

\* getUnassignedRepositories that stops at the first repository it finds
getUnassignedRepositories_FirstOnly(m, catalog) ==
  LET all  == getAllRepositories(catalog)
      open == { i \in 1..Len(all) :
                  MapGet(m, Key(all[i][1], all[i][2])) = EmptyStr }
  IN  IF open = {} THEN << >>
      ELSE << all[CHOOSE i \in open : \A j \in open : i <= j] >>

\* getUnassignedRepositories: those whose IP field is ""
getUnassignedRepositories(m, catalog) ==
  LET all == getAllRepositories(catalog)
      RECURSIVE Keep(_)
      Keep(i) == IF i > Len(all) THEN << >>
                 ELSE IF MapGet(m, Key(all[i][1], all[i][2])) = EmptyStr
                 THEN << all[i] >> \o Keep(i + 1)
                 ELSE Keep(i + 1)
  IN  Keep(1)

(***************************************************************************)
(* The read-only reports: SyncCheck and CheckDuplicates.  A report is what *)
(* the command printed: host, the addresses found on the host; missing,    *)
(* the "ip (assigned to repo)" lines; dups, the "Duplicate IP" blocks;     *)
(* clean, the line saying that nothing was found.                          *)
(***************************************************************************)
NoReport == [host |-> {}, missing |-> << >>, dups |-> {}, clean |-> FALSE]

\* the addresses the host can have on its loopback interface
HostIPs == { CandidateIP(DefaultBase, 10), CandidateIP(DefaultBase, 11) }

\* missingIPs before the sort: one append per ledger entry whose ip is not
\* on the host, in some iteration order of the map
RECURSIVE MissingIPs(_, _, _)
MissingIPs(m, keys, host) ==
  IF keys = {} THEN << >>
  ELSE LET key == CHOOSE k \in keys : TRUE
           rest == MissingIPs(m, keys \ {key}, host)
       IN  IF m[key] \notin host THEN << m[key] >> \o rest ELSE rest

\* assignedIPs: for each ip the key written last, any of those holding it
AssignedIPs(m) ==
  { o \in [UsedIPs(m) -> DOMAIN m] : \A ip \in UsedIPs(m) : m[o[ip]] = ip }

\* SyncCheck: the reports it can print
SyncCheck(m, host) ==
  LET missingIPs == SortStrings(MissingIPs(m, DOMAIN m, host)) IN
  { [host    |-> host,
     missing |-> [i \in 1..Len(missingIPs) |->
                    << missingIPs[i], assignedIPs[missingIPs[i]] >>],
     dups    |-> {},
     clean   |-> Len(missingIPs) = 0] : assignedIPs \in AssignedIPs(m) }

\* ipMap: for each ip the keys appended to it
IpMap(m) == [ip \in UsedIPs(m) |-> { k \in DOMAIN m : m[k] = ip }]

\* CheckDuplicates reporting only the ips held by more than two keys
CheckDuplicates_MoreThanTwo(m) ==
  LET ipMap == IpMap(m)
      shown == { ip \in DOMAIN ipMap : Cardinality(ipMap[ip]) > 2 }
  IN  [host    |-> {},
       missing |-> << >>,
       dups    |-> { << ip, ipMap[ip] >> : ip \in shown },
       clean   |-> shown = {}]

\* CheckDuplicates: the report it prints
CheckDuplicates(m) ==
  LET ipMap == IpMap(m)
      shown == { ip \in DOMAIN ipMap : Cardinality(ipMap[ip]) > 1 }
  IN  [host    |-> {},
       missing |-> << >>,
       dups    |-> { << ip, ipMap[ip] >> : ip \in shown },
       clean   |-> shown = {}]

(***************************************************************************)
(* Assign, Remove and AutoAssign as relations: the set of results a call   *)
(* can have.  saveFault is what ioutil.WriteFile does on the ledger file:  *)
(* "none" (written), "open" (the open fails, file untouched) or "write"    *)
(* (truncated by the open, then the write fails).  envFault: the write of  *)
(* the .env file fails.                                                    *)
(***************************************************************************)
SaveFaults == { "none", "open", "write" }

\* the file saveAssignments leaves and the error it returns
SaveResult(m, f, saveFault) ==
  IF saveFault = "open" THEN [f |-> f, err |-> IOFailure]
  ELSE IF saveFault = "write" THEN [f |-> FileOf(EmptyStr), err |-> IOFailure]
  ELSE [f |-> FileOf(saveAssignments(m)), err |-> NoErr]

\* AssignCommit without the "existing != key" exemption of the key's own ip
AssignCommit_NoSelfExempt(m, f, e, key, ip, existing, saveFault, envFault) ==
  IF existing # EmptyStr
  THEN [m |-> m, f |-> f, e |-> e, err |-> AddressConflict(ip, existing),
        ip |-> ip, warn |-> FALSE]
  ELSE LET m2    == MapSet(m, key, ip)
           saved == SaveResult(m2, f, saveFault)
           envOK == key \in DOMAIN e /\ ~envFault
       IN  IF saved.err # NoErr
           THEN [m |-> m2, f |-> saved.f, e |-> e, err |-> saved.err,
                 ip |-> ip, warn |-> FALSE]
           ELSE [m |-> m2, f |-> saved.f,
                 e |-> IF envOK THEN [e EXCEPT ![key] = updateEnvFile(e[key], ip)]
                       ELSE e,
                 err |-> NoErr, ip |-> ip, warn |-> ~envOK]

\* AssignCommit that drops the error of saveAssignments
AssignCommit_IgnoresSaveError(m, f, e, key, ip, existing, saveFault, envFault) ==
  IF existing # EmptyStr /\ existing # key
  THEN [m |-> m, f |-> f, e |-> e, err |-> AddressConflict(ip, existing),
        ip |-> ip, warn |-> FALSE]
  ELSE LET m2    == MapSet(m, key, ip)
           saved == SaveResult(m2, f, saveFault)
           envOK == key \in DOMAIN e /\ ~envFault
       IN  [m |-> m2, f |-> saved.f,
            e |-> IF envOK THEN [e EXCEPT ![key] = updateEnvFile(e[key], ip)]
                  ELSE e,
            err |-> NoErr, ip |-> ip, warn |-> ~envOK]

\* AssignCommit that writes the .env file before it saves the ledger
AssignCommit_EnvBeforeSave(m, f, e, key, ip, existing, saveFault, envFault) ==
  IF existing # EmptyStr /\ existing # key
  THEN [m |-> m, f |-> f, e |-> e, err |-> AddressConflict(ip, existing),
        ip |-> ip, warn |-> FALSE]
  ELSE LET m2    == MapSet(m, key, ip)
           saved == SaveResult(m2, f, saveFault)
           envOK == key \in DOMAIN e /\ ~envFault
       IN  [m |-> m2, f |-> saved.f,
            e |-> IF envOK THEN [e EXCEPT ![key] = updateEnvFile(e[key], ip)]
                  ELSE e,
            err |-> saved.err, ip |-> ip, warn |-> saved.err = NoErr /\ ~envOK]

\* Assign from the conflict check on, for one return value of findRepositoryByIP
AssignCommit(m, f, e, key, ip, existing, saveFault, envFault) ==
  IF existing # EmptyStr /\ existing # key
  THEN [m |-> m, f |-> f, e |-> e, err |-> AddressConflict(ip, existing),
        ip |-> ip, warn |-> FALSE]
  ELSE LET m2    == MapSet(m, key, ip)
           saved == SaveResult(m2, f, saveFault)
           envOK == key \in DOMAIN e /\ ~envFault
       IN  IF saved.err # NoErr
           THEN [m |-> m2, f |-> saved.f, e |-> e, err |-> saved.err,
                 ip |-> ip, warn |-> FALSE]
           ELSE [m |-> m2, f |-> saved.f,
                 e |-> IF envOK THEN [e EXCEPT ![key] = updateEnvFile(e[key], ip)]
                       ELSE e,
                 err |-> NoErr, ip |-> ip, warn |-> ~envOK]

\* Manager.Assign
Assign(m, f, e, cfg, org, repo, ipReq, saveFault, envFault) ==
  LET key == Key(org, repo)
      ip  == IF ipReq = EmptyStr THEN getNextAvailableIP(m, cfg) ELSE ipReq
  IN  IF ~isValidIP(ip, cfg)
      THEN { [m |-> m, f |-> f, e |-> e, err |-> InvalidAddress(ip),
              ip |-> ip, warn |-> FALSE] }
      ELSE { AssignCommit(m, f, e, key, ip, existing, saveFault, envFault) :
               existing \in findRepositoryByIP(m, ip) }

\* Manager.Remove
Remove(m, f, org, repo, saveFault) ==
  LET key == Key(org, repo) IN
  IF key \notin DOMAIN m
  THEN [m |-> m, f |-> f, err |-> NotFound(key)]
  ELSE LET m2    == MapDelete(m, key)
           saved == SaveResult(m2, f, saveFault)
       IN  [m |-> m2, f |-> saved.f, err |-> saved.err]

\* the inner loop started at Start each time instead of at nextIP
NextCandidate_FromStart(cfg, nextIP, usedIPs) ==
  LET free == { i \in cfg.Start..cfg.End : CandidateIP(cfg.Base, i) \notin usedIPs }
  IN  IF free = {} THEN 0 ELSE CHOOSE i \in free : \A j \in free : i <= j

\* the inner loop stopping one short of End (i < End)
NextCandidate_EndExclusive(cfg, nextIP, usedIPs) ==
  LET free == { i \in nextIP..(cfg.End - 1) :
                  CandidateIP(cfg.Base, i) \notin usedIPs }
  IN  IF free = {} THEN 0 ELSE CHOOSE i \in free : \A j \in free : i <= j

\* the inner loop of AutoAssign: the first suffix i in nextIP..End whose
\* candidate is not in usedIPs, or 0 when there is none (ip stays "")
NextCandidate(cfg, nextIP, usedIPs) ==
  LET free == { i \in nextIP..cfg.End : CandidateIP(cfg.Base, i) \notin usedIPs }
  IN  IF free = {} THEN 0 ELSE CHOOSE i \in free : \A j \in free : i <= j

\* the loop of AutoAssign over unassigned[idx..]; st = [m, f, e, plan, warn];
\* failAt: the call of Assign (by position) whose save has fault failKind.
\* An error of Assign is returned wrapped ("failed to assign IP to ...: %v");
\* the model keeps the wrapped error's kind.
RECURSIVE AutoAssignLoop(_, _, _, _, _, _, _, _, _, _)
AutoAssignLoop(st, cfg, unassigned, idx, nextIP, usedIPs, execute, failAt, failKind, envFault) ==
  IF idx > Len(unassigned)
  THEN { [m |-> st.m, f |-> st.f, e |-> st.e, plan |-> st.plan,
          warn |-> st.warn, err |-> NoErr] }
  ELSE
    LET repo == unassigned[idx]
        i    == NextCandidate(cfg, nextIP, usedIPs)
        ip   == CandidateIP(cfg.Base, i)
    IN  IF i = 0
        THEN { [m |-> st.m, f |-> st.f, e |-> st.e, plan |-> st.plan,
                warn |-> st.warn, err |-> Exhausted] }
        ELSE IF execute
        THEN UNION {
               IF r.err # NoErr
               THEN { [m |-> r.m, f |-> r.f, e |-> r.e, plan |-> st.plan,
                       warn |-> st.warn, err |-> r.err] }
               ELSE AutoAssignLoop(
                      [m |-> r.m, f |-> r.f, e |-> r.e,
                       plan |-> Append(st.plan, << Key(repo[1], repo[2]), ip >>),
                       warn |-> st.warn \/ r.warn],
                      cfg, unassigned, idx + 1, i + 1, usedIPs, execute,
                      failAt, failKind, envFault)
               : r \in Assign(st.m, st.f, st.e, cfg, repo[1], repo[2], ip,
                              IF failAt = idx THEN failKind ELSE "none", envFault) }
        ELSE AutoAssignLoop(
               [st EXCEPT !.plan = Append(st.plan, << Key(repo[1], repo[2]), ip >>)],
               cfg, unassigned, idx + 1, i + 1, usedIPs \cup {ip}, execute,
               failAt, failKind, envFault)

\* AutoAssign that ignores the execute flag and always commits
AutoAssign_AlwaysExecutes(m, f, e, cfg, catalog, execute, failAt, failKind, envFault) ==
  LET unassigned == getUnassignedRepositories(m, catalog)
      st == [m |-> m, f |-> f, e |-> e, plan |-> << >>, warn |-> FALSE]
  IN  IF Len(unassigned) = 0
      THEN { [m |-> m, f |-> f, e |-> e, plan |-> << >>, warn |-> FALSE,
              err |-> NoErr] }
      ELSE AutoAssignLoop(st, cfg, unassigned, 1, cfg.Start, UsedIPs(m), TRUE,
                          failAt, failKind, envFault)

\* Manager.AutoAssign; plan: the (repository, ip) pairs printed, "Assigned"
\* in execute mode and "Would assign" in a dry run
AutoAssign(m, f, e, cfg, catalog, execute, failAt, failKind, envFault) ==
  LET unassigned == getUnassignedRepositories(m, catalog)
      st == [m |-> m, f |-> f, e |-> e, plan |-> << >>, warn |-> FALSE]
  IN  IF Len(unassigned) = 0
      THEN { [m |-> m, f |-> f, e |-> e, plan |-> << >>, warn |-> FALSE,
              err |-> NoErr] }
      ELSE AutoAssignLoop(st, cfg, unassigned, 1, cfg.Start, UsedIPs(m), execute,
                          failAt, failKind, envFault)

(***************************************************************************)
(* The state: one Manager, the files it reads and writes, and the record   *)
(* of the last call (its arguments, the state it started from, what it     *)
(* returned and printed).                                                  *)
(***************************************************************************)
VARIABLES
  cfg,          \* Manager.config.IPRange
  catalog,      \* the (org, repo) directories under BaseDir with a compose file
  assignments,  \* Manager.assignments
  file,         \* the ledger file, assignments.txt
  env,          \* the .env file of each catalog directory, by "org/repo"
  phase,        \* "start" before New, "ready" once New has returned
  loadErr,      \* what loadAssignments returned to New
  op,           \* the last call and its arguments
  err,          \* the error the last call returned
  pre,          \* assignments, file and env when the last call began
  plan,         \* the (repository, ip) pairs the last AutoAssign printed
  warn,         \* the last call printed "Warning: Could not update .env file"
  report,       \* what the last SyncCheck or CheckDuplicates printed
  peer,         \* a second invocation of the tool on the same ledger file
  nops          \* commands issued since New

vars == << cfg, catalog, assignments, file, env, phase, loadErr, op, err, pre,
           plan, warn, report, peer, nops >>

NoOp == [name |-> "none", org |-> EmptyStr, repo |-> EmptyStr, ip |-> EmptyStr,
         execute |-> FALSE]

Snapshot == [m |-> assignments, f |-> file, e |-> env]

\* no second invocation; with one: phase is where that process stands, m its
\* Manager's assignments, op and err its command and what it returned, after
\* whether its command ran after the first invocation's command
NoPeer == [phase |-> "none", m |-> EmptyMap, op |-> NoOp, err |-> NoErr,
           after |-> FALSE]

\* the process before manager.New has run
InitProcess ==
  /\ assignments = EmptyMap
  /\ phase = "start"
  /\ loadErr = NoErr
  /\ op = NoOp
  /\ err = NoErr
  /\ pre = [m |-> EmptyMap, f |-> file, e |-> env]
  /\ plan = << >>
  /\ warn = FALSE
  /\ report = NoReport
  /\ nops = 0

InitDisk ==
  /\ cfg \in { [Base |-> DefaultBase, Start |-> DefaultStart, End |-> n] :
               n \in DefaultStart..MaxEnd }
  /\ catalog \in SUBSET DirRepos
  /\ file \in InitFiles
  /\ env = [k \in { Key(r[1], r[2]) : r \in catalog } |-> NoFile]
  /\ InitProcess

Init == InitDisk /\ peer = NoPeer

\* manager.New: the error of loadAssignments is dropped
New ==
  /\ phase = "start"
  /\ \E readFault \in BOOLEAN :
       LET loaded == loadAssignments(file, readFault) IN
       /\ assignments' = loaded.m
       /\ loadErr' = loaded.err
  /\ phase' = "ready"
  /\ op' = [NoOp EXCEPT !.name = "New"]
  /\ pre' = Snapshot
  /\ UNCHANGED << cfg, catalog, file, env, err, plan, warn, report, peer,
                  nops >>

\* loopback-manager assign <org> <repo> [--ip ADDR]
CmdAssign ==
  /\ phase = "ready" /\ nops < MaxOps
  /\ \E a \in ArgRepos, ipReq \in ArgIPs, saveFault \in SaveFaults,
        envFault \in BOOLEAN :
       \E r \in Assign(assignments, file, env, cfg, a[1], a[2], ipReq,
                       saveFault, envFault) :
         /\ assignments' = r.m
         /\ file' = r.f
         /\ env' = r.e
         /\ err' = r.err
         /\ warn' = r.warn
         /\ op' = [name |-> "Assign", org |-> a[1], repo |-> a[2], ip |-> ipReq,
                   execute |-> FALSE]
  /\ pre' = Snapshot
  /\ plan' = << >>
  /\ nops' = nops + 1
  /\ report' = NoReport
  /\ UNCHANGED << cfg, catalog, phase, loadErr, peer >>

\* loopback-manager remove <org> <repo>
CmdRemove ==
  /\ phase = "ready" /\ nops < MaxOps
  /\ \E a \in ArgRepos, saveFault \in SaveFaults :
       LET r == Remove(assignments, file, a[1], a[2], saveFault) IN
       /\ assignments' = r.m
       /\ file' = r.f
       /\ err' = r.err
       /\ op' = [name |-> "Remove", org |-> a[1], repo |-> a[2], ip |-> EmptyStr,
                 execute |-> FALSE]
  /\ pre' = Snapshot
  /\ plan' = << >>
  /\ warn' = FALSE
  /\ nops' = nops + 1
  /\ report' = NoReport
  /\ UNCHANGED << cfg, catalog, env, phase, loadErr, peer >>

\* loopback-manager auto-assign [--execute]
CmdAutoAssign ==
  /\ phase = "ready" /\ nops < MaxOps
  /\ \E execute \in BOOLEAN, failAt \in 0..Cardinality(catalog),
        failKind \in SaveFaults \ {"none"}, envFault \in BOOLEAN :
       \E r \in AutoAssign(assignments, file, env, cfg, catalog, execute,
                           failAt, failKind, envFault) :
         /\ assignments' = r.m
         /\ file' = r.f
         /\ env' = r.e
         /\ err' = r.err
         /\ plan' = r.plan
         /\ warn' = r.warn
         /\ op' = [name |-> "AutoAssign", org |-> EmptyStr, repo |-> EmptyStr,
                   ip |-> EmptyStr, execute |-> execute]
  /\ pre' = Snapshot
  /\ nops' = nops + 1
  /\ report' = NoReport
  /\ UNCHANGED << cfg, catalog, phase, loadErr, peer >>

\* loopback-manager sync-check (hostFail: the host's addresses cannot be read)
CmdSyncCheck ==
  /\ phase = "ready" /\ nops < MaxOps
  /\ \E host \in SUBSET HostIPs, hostFail \in BOOLEAN :
       IF hostFail
       THEN err' = HostQueryFailure /\ report' = NoReport
       ELSE err' = NoErr /\ report' \in SyncCheck(assignments, host)
  /\ op' = [NoOp EXCEPT !.name = "SyncCheck"]
  /\ pre' = Snapshot
  /\ plan' = << >>
  /\ warn' = FALSE
  /\ nops' = nops + 1
  /\ UNCHANGED << cfg, catalog, assignments, file, env, phase, loadErr,
                  peer >>

\* loopback-manager check
CmdCheckDuplicates ==
  /\ phase = "ready" /\ nops < MaxOps
  /\ report' = CheckDuplicates(assignments)
  /\ err' = NoErr
  /\ op' = [NoOp EXCEPT !.name = "CheckDuplicates"]
  /\ pre' = Snapshot
  /\ plan' = << >>
  /\ warn' = FALSE
  /\ nops' = nops + 1
  /\ UNCHANGED << cfg, catalog, assignments, file, env, phase, loadErr,
                  peer >>

Next ==
  New \/ CmdAssign \/ CmdRemove \/ CmdAutoAssign \/ CmdSyncCheck
    \/ CmdCheckDuplicates

Spec == Init /\ [][Next]_vars

(***************************************************************************)
(* The tool run in a directory whose repository a/c already has a .env     *)
(* file: any file of up to MaxEnvLines lines, each blank, another          *)
(* variable's, or an earlier LOOPBACK_IP line.                             *)
(***************************************************************************)
EnvLineChoices ==
  { EmptyStr, << "A", "=", "B" >>, << "C", "=", "A" >>,
    LoopbackVar \o CandidateIP(DefaultBase, 5) }

EnvInits ==
  { NoFile } \cup
  { FileOf(Join(ls, << "\n" >>)) :
      ls \in UNION { [1..n -> EnvLineChoices] : n \in 1..MaxEnvLines } }

InitEnvFiles ==
  /\ cfg = [Base |-> DefaultBase, Start |-> DefaultStart, End |-> MaxEnd]
  /\ catalog = { << A, C >> }
  /\ file \in { NoFile, FileOf(Line(A, C, CandidateIP(DefaultBase, 10))) }
  /\ env \in [{ Key(A, C) } -> EnvInits]
  /\ InitProcess
  /\ peer = NoPeer

\* the one command of a process, for the commands that write files
FirstAssign == nops = 0 /\ CmdAssign
FirstRemove == nops = 0 /\ CmdRemove
FirstAutoAssign == nops = 0 /\ CmdAutoAssign

NextEnvFiles == New \/ FirstAssign \/ FirstRemove \/ FirstAutoAssign

SpecEnvFiles == InitEnvFiles /\ [][NextEnvFiles]_vars

(***************************************************************************)
(* Two invocations on one ledger file (the file is not locked).  Each is a *)
(* process of its own: it loads in New, runs one command and exits.  Both  *)
(* load before either runs its command, in either order.                   *)
(***************************************************************************)
InitConcurrent ==
  /\ InitDisk
  /\ cfg.End = MaxEnd
  /\ catalog = DirRepos
  /\ peer = [NoPeer EXCEPT !.phase = "start"]

\* manager.New in the second process
PeerNew ==
  /\ peer.phase = "start"
  /\ \E readFault \in BOOLEAN :
       peer' = [peer EXCEPT !.phase = "ready",
                            !.m = loadAssignments(file, readFault).m]
  /\ UNCHANGED << cfg, catalog, assignments, file, env, phase, loadErr, op,
                  err, pre, plan, warn, report, nops >>

\* assign in the second process
PeerAssign ==
  /\ phase = "ready" /\ peer.phase = "ready"
  /\ \E a \in ArgRepos, ipReq \in ArgIPs, saveFault \in SaveFaults,
        envFault \in BOOLEAN :
       \E r \in Assign(peer.m, file, env, cfg, a[1], a[2], ipReq,
                       saveFault, envFault) :
         /\ file' = r.f
         /\ env' = r.e
         /\ peer' = [phase |-> "done", m |-> r.m, err |-> r.err,
                     op |-> [name |-> "Assign", org |-> a[1], repo |-> a[2],
                             ip |-> ipReq, execute |-> FALSE],
                     after |-> nops > 0]
  /\ UNCHANGED << cfg, catalog, assignments, phase, loadErr, op, err, pre,
                  plan, warn, report, nops >>

\* remove in the second process
PeerRemove ==
  /\ phase = "ready" /\ peer.phase = "ready"
  /\ \E a \in ArgRepos, saveFault \in SaveFaults :
       LET r == Remove(peer.m, file, a[1], a[2], saveFault) IN
       /\ file' = r.f
       /\ peer' = [phase |-> "done", m |-> r.m, err |-> r.err,
                   op |-> [name |-> "Remove", org |-> a[1], repo |-> a[2],
                           ip |-> EmptyStr, execute |-> FALSE],
                   after |-> nops > 0]
  /\ UNCHANGED << cfg, catalog, assignments, env, phase, loadErr, op, err, pre,
                  plan, warn, report, nops >>

\* assign and remove in the first process, once the second has loaded
ConcurrentAssign == peer.phase # "start" /\ FirstAssign
ConcurrentRemove == peer.phase # "start" /\ FirstRemove

NextConcurrent ==
  New \/ PeerNew \/ ConcurrentAssign \/ ConcurrentRemove \/ PeerAssign
    \/ PeerRemove

SpecConcurrent == InitConcurrent /\ [][NextConcurrent]_vars

(***************************************************************************)
(* What the claims speak of.                                               *)
(***************************************************************************)
\* the key the last assign or remove was called for
OpKey == Key(op.org, op.repo)

\* the ledger a load of the ledger file, as it is now, yields
PersistedLedger == loadAssignments(file, FALSE).m

\* the ledger a load of the ledger file, as it was when the call began, yields
PersistedBefore == loadAssignments(pre.f, FALSE).m

\* the keys other than the call's own that held the requested ip
OtherOwners == { k \in (DOMAIN pre.m) \ {OpKey} : pre.m[k] = op.ip }

\* the unassigned repositories, in catalog order, when the call began
PreUnassigned == getUnassignedRepositories(pre.m, catalog)

\* the suffixes of the range not recorded as used when the call began
FreeAtStart ==
  { n \in cfg.Start..cfg.End : CandidateIP(cfg.Base, n) \notin UsedIPs(pre.m) }

AssignRequested == op.name = "Assign" /\ op.ip # EmptyStr
AssignDerived == op.name = "Assign" /\ op.ip = EmptyStr
BatchExecuted == op.name = "AutoAssign" /\ op.execute
BatchDryRun == op.name = "AutoAssign" /\ ~op.execute

\* C1 as stated: whenever the requested ip is held by some other key, Assign
\* fails with the address conflict naming that key, and the in-memory ledger
\* and the ledger file are as before.
C1_ConflictForEveryLedger ==
  AssignRequested =>
    \A k \in OtherOwners :
      /\ err = AddressConflict(op.ip, k)
      /\ assignments = pre.m
      /\ file = pre.f

\* C1 amended: when the requested ip passes the validity check, is held by at
\* least one other key and is not held by the call's own key, Assign fails with
\* the address conflict naming one of the other keys that hold it, and the
\* in-memory ledger, the ledger file and the .env files are as before.
C1_ConflictLeavesLedger ==
  ( /\ AssignRequested
    /\ isValidIP(op.ip, cfg)
    /\ OtherOwners # {}
    /\ MapGet(pre.m, OpKey) # op.ip )
  => /\ err.kind = "AddressConflict"
     /\ err.ip = op.ip
     /\ err.owner \in OtherOwners
     /\ assignments = pre.m
     /\ file = pre.f
     /\ env = pre.e

C1_Witness ==
  /\ AssignRequested
  /\ isValidIP(op.ip, cfg)
  /\ OtherOwners # {}
  /\ MapGet(pre.m, OpKey) # op.ip
  /\ err.kind = "AddressConflict"
  /\ pre.m # EmptyMap

\* C2 as stated (storage failures aside): whenever the key already maps to the
\* requested ip, Assign returns no error and the ledger is as before.
C2_IdempotentForEveryLedger ==
  ( /\ AssignRequested
    /\ MapGet(pre.m, OpKey) = op.ip
    /\ err.kind # "IOFailure" )
  => /\ err = NoErr
     /\ assignments = pre.m

\* C2 amended: when the key already maps to the requested ip, the ip passes the
\* validity check and no other key maps to it, Assign returns no error unless
\* the write of the ledger file fails, and the in-memory ledger after the call
\* equals the ledger before it; the call can so be repeated any number of times.
C2_IdempotentReassign ==
  ( /\ AssignRequested
    /\ MapGet(pre.m, OpKey) = op.ip
    /\ isValidIP(op.ip, cfg)
    /\ OtherOwners = {} )
  => /\ err.kind \in {"none", "IOFailure"}
     /\ assignments = pre.m
     /\ MapGet(assignments, OpKey) = op.ip
     /\ err = NoErr => file = FileOf(saveAssignments(pre.m))

C2_Witness ==
  /\ AssignRequested
  /\ MapGet(pre.m, OpKey) = op.ip
  /\ isValidIP(op.ip, cfg)
  /\ OtherOwners = {}
  /\ err = NoErr

\* C3: when every suffix of the range is used, Assign without a requested ip
\* fails with the Exhausted error, not the InvalidAddress one, and the ledger
\* and the ledger file are as before.
C3_ExhaustedOnDerive ==
  (AssignDerived /\ FreeAtStart = {})
  => /\ err.kind = "Exhausted"
     /\ assignments = pre.m
     /\ file = pre.f

\* the suffix of an ip of the range, 0 for any other string
SuffixOf(ip) ==
  IF \E n \in cfg.Start..cfg.End : CandidateIP(cfg.Base, n) = ip
  THEN CHOOSE n \in cfg.Start..cfg.End : CandidateIP(cfg.Base, n) = ip
  ELSE 0

\* C4: AutoAssign(execute=true) commits, to the unassigned repositories in
\* catalog order, the free suffixes of the range in increasing order with none
\* left out: the j-th commit goes to the j-th unassigned repository and takes
\* the j-th smallest suffix >= Start that was not used at batch start.  The
\* batch ends early only when the free suffixes run out or a save fails.
C4_BatchTakesLowestFree ==
  BatchExecuted =>
    /\ Len(plan) <= Len(PreUnassigned)
    /\ \A j \in 1..Len(plan) :
         /\ plan[j][1] = Key(PreUnassigned[j][1], PreUnassigned[j][2])
         /\ SuffixOf(plan[j][2]) \in FreeAtStart
         /\ Cardinality({ n \in FreeAtStart : n < SuffixOf(plan[j][2]) }) = j - 1
         /\ MapGet(assignments, plan[j][1]) = plan[j][2]
    /\ err.kind \in {"none", "Exhausted", "IOFailure"}
    /\ err = NoErr => Len(plan) = Len(PreUnassigned)
    /\ err = Exhausted =>
         Len(plan) = Cardinality(FreeAtStart) /\ Len(plan) < Len(PreUnassigned)

\* two commits, the second one skipping a suffix that was used at batch start
C4_Witness ==
  /\ BatchExecuted
  /\ err = NoErr
  /\ Len(plan) = 2
  /\ SuffixOf(plan[1][2]) = cfg.Start
  /\ SuffixOf(plan[2][2]) = cfg.Start + 2

\* what AutoAssign in the other mode returns from the state the last call
\* began in, with no storage failure
OtherModeRuns ==
  AutoAssign(pre.m, pre.f, pre.e, cfg, catalog, ~op.execute, 0, "open", FALSE)

\* C5: from the same starting state, the (repository, ip) pairs a dry run
\* reports and the pairs execute mode commits are the same sequence, and both
\* end the same way (completed, or range exhausted at the same repository).
C5_DryRunMatchesExecute ==
  (op.name = "AutoAssign" /\ err.kind # "IOFailure")
  => \A r \in OtherModeRuns : r.plan = plan /\ r.err = err

C5_Witness ==
  /\ BatchDryRun
  /\ Len(plan) >= 1
  /\ err = Exhausted
  /\ pre.m # EmptyMap

\* C6: a dry run leaves the in-memory ledger, the ledger file and every .env
\* file as they were.
C6_DryRunChangesNothing ==
  BatchDryRun => assignments = pre.m /\ file = pre.f /\ env = pre.e

C6_Witness ==
  /\ BatchDryRun
  /\ Len(plan) = 2
  /\ err = NoErr

C8_WriteThrough ==
  (op.name \in {"Assign", "Remove"} /\ err = NoErr)
  => PersistedLedger = assignments

\* the lines of a ledger file are all blank, comments, or three tokens
ValidLedgerFile(f) ==
  /\ f.exists
  /\ LET lines == Split(f.data, "\n") IN
     \A i \in 1..Len(lines) :
       LET line == TrimSpace(lines[i]) IN
       \/ line = EmptyStr
       \/ HasPrefix(line, << "#" >>)
       \/ Len(Fields(line)) = 3

\* C9: for a valid ledger file, saving what was loaded writes a file that loads
\* to the same mapping.
C9_LoadSaveRoundTrip ==
  (op.name = "New" /\ loadErr = NoErr /\ ValidLedgerFile(file))
  => loadAssignments(FileOf(saveAssignments(assignments)), FALSE).m = assignments

\* C10: a missing ledger file gives an empty ledger and no error; any other
\* read failure is fatal: New does not hand out a Manager, so no command runs.
C10_ReadFailureIsFatal ==
  /\ (phase = "ready" /\ ~pre.f.exists /\ op.name = "New")
       => (loadErr = NoErr /\ assignments = EmptyMap)
  /\ loadErr # NoErr => (phase # "ready" /\ nops = 0)

\* C11 (storage failures aside): Remove of a key with no assignment fails with
\* the not-found error and leaves the in-memory ledger and the ledger file as
\* they were; Remove of a key with an assignment returns no error, deletes that
\* key's entry and no other from the in-memory ledger, and a load of the ledger
\* file then yields that ledger.
C11_RemoveExactlyOne ==
  op.name = "Remove" =>
    /\ OpKey \notin DOMAIN pre.m =>
         (err = NotFound(OpKey) /\ assignments = pre.m /\ file = pre.f)
    /\ (OpKey \in DOMAIN pre.m /\ err.kind # "IOFailure") =>
         /\ err = NoErr
         /\ assignments = MapDelete(pre.m, OpKey)
         /\ PersistedLedger = assignments

\* the ledger's addresses the host does not have
AbsentFromHost == { ip \in UsedIPs(assignments) : ip \notin report.host }

\* C12: the missing list of SyncCheck is sorted, holds every ledger address the
\* host lacks exactly once, also when several keys share it, holds no address
\* the host has, and names with each address a key that owns it.
C12_MissingSortedDistinct ==
  (op.name = "SyncCheck" /\ err = NoErr) =>
    LET missing == report.missing IN
    /\ \A ip \in AbsentFromHost :
         Cardinality({ i \in 1..Len(missing) : missing[i][1] = ip }) = 1
    /\ \A i \in 1..Len(missing) :
         /\ missing[i][1] \in AbsentFromHost
         /\ MapGet(assignments, missing[i][2]) = missing[i][1]
    /\ \A i, j \in 1..Len(missing) :
         i < j => StrLess(missing[i][1], missing[j][1])

\* both invocations have run their command and both commands succeeded
BothSucceeded ==
  /\ peer.phase = "done" /\ peer.err = NoErr
  /\ op.name \in {"Assign", "Remove"} /\ err = NoErr

\* the in-memory ledger of the invocation that saved last
LastSaved == IF peer.after THEN peer.m ELSE assignments

\* C13: when two invocations load before either saves and each then runs one
\* successful Assign or Remove, a load of the final ledger file yields the
\* in-memory ledger of the invocation that saved last.
C13_LastWriterWins == BothSucceeded => PersistedLedger = LastSaved

\* the last call was an Assign that went through to the write of the .env file
Upserted ==
  /\ op.name = "Assign" /\ err = NoErr /\ ~warn
  /\ OpKey \in DOMAIN env

\* the line the upsert writes, and the lines of the .env before and after it
UpsertLine == LoopbackVar \o MapGet(assignments, OpKey)
OldLines == Split(pre.e[OpKey].data, "\n")
NewLines == Split(env[OpKey].data, "\n")

IsLoopbackLine(l) == HasPrefix(l, LoopbackVar)

\* the upsert rule: the LOOPBACK_IP lines replaced where they stand, or without
\* one the new line put first; every other line as it was
ReplacedOrPrepended(old, x) ==
  IF \E i \in 1..Len(old) : IsLoopbackLine(old[i])
  THEN [i \in 1..Len(old) |-> IF IsLoopbackLine(old[i]) THEN x ELSE old[i]]
  ELSE << x >> \o old

\* old without the blank lines that come before its first non-blank line
DropLeadingBlank(old) ==
  LET blank == { i \in 0..Len(old) : \A j \in 1..i : old[j] = EmptyStr }
      n     == CHOOSE i \in blank : \A j \in blank : j <= i
  IN  SubSeq(old, n + 1, Len(old))

\* C14 as stated: for every existing .env, the upsert replaces the LOOPBACK_IP
\* line in place or else prepends it, and keeps every other line, blank ones
\* included, verbatim and in order.
C14_UpsertKeepsEveryLine ==
  (Upserted /\ pre.e[OpKey].exists)
  => NewLines = ReplacedOrPrepended(OldLines, UpsertLine)

\* C14 amended: the blank lines before the first non-blank line are dropped;
\* on what remains, every LOOPBACK_IP line is replaced where it stands, or
\* without one the new line is put first, and every other line, later blank
\* lines included, is kept verbatim and in order.
C14_UpsertKeepsLines ==
  (Upserted /\ pre.e[OpKey].exists)
  => NewLines = ReplacedOrPrepended(DropLeadingBlank(OldLines), UpsertLine)

\* another variable, the old LOOPBACK_IP line, a third variable: the middle
\* line replaced where it stands
C14_Witness ==
  /\ Upserted /\ pre.e[OpKey].exists
  /\ Len(OldLines) = 3
  /\ ~IsLoopbackLine(OldLines[1]) /\ OldLines[1] # EmptyStr
  /\ IsLoopbackLine(OldLines[2]) /\ OldLines[2] # UpsertLine
  /\ ~IsLoopbackLine(OldLines[3]) /\ OldLines[3] \notin { EmptyStr, OldLines[1] }
  /\ NewLines = << OldLines[1], UpsertLine, OldLines[3] >>

\* C15: after a successful upsert with ip x, whatever the .env was before
\* (absent, without the variable, with one or with several LOOPBACK_IP lines),
\* exactly one line of the file starts with LOOPBACK_IP= and it is
\* LOOPBACK_IP=x, and the same upsert applied again leaves the file as it is.
C15_SingleLineIdempotent ==
  Upserted =>
    /\ Cardinality({ i \in 1..Len(NewLines) : IsLoopbackLine(NewLines[i]) }) = 1
    /\ \A i \in 1..Len(NewLines) :
         IsLoopbackLine(NewLines[i]) => NewLines[i] = UpsertLine
    /\ updateEnvFile(env[OpKey], MapGet(assignments, OpKey)) = env[OpKey]

\* C16: when the ledger commit of Assign succeeds and the write of the .env file
\* fails (the warning is printed), Assign returns no error and the committed
\* assignment of the key is in the in-memory ledger and in the ledger file.
C16_EnvFailureKeepsCommit ==
  (op.name = "Assign" /\ warn) =>
    /\ err = NoErr
    /\ MapGet(assignments, OpKey) # EmptyStr
    /\ op.ip # EmptyStr => MapGet(assignments, OpKey) = op.ip
    /\ MapGet(PersistedLedger, OpKey) = MapGet(assignments, OpKey)

\* the keys that hold ip in the in-memory ledger
Holders(ip) == { k \in DOMAIN assignments : assignments[k] = ip }

\* C17: CheckDuplicates says that there are no duplicates exactly when no two
\* keys of the ledger share an ip; an ip held by two or more keys is reported
\* with all the keys that hold it, and an ip held by one key is not reported.
C17_DuplicatesReport ==
  op.name = "CheckDuplicates" =>
    /\ err = NoErr
    /\ report.clean <=>
         \A k1, k2 \in DOMAIN assignments :
           assignments[k1] = assignments[k2] => k1 = k2
    /\ \A ip \in UsedIPs(assignments) :
         IF Cardinality(Holders(ip)) >= 2
         THEN \A d \in report.dups : d[1] = ip => d[2] = Holders(ip)
         ELSE \A d \in report.dups : d[1] # ip
    /\ \A ip \in UsedIPs(assignments) :
         Cardinality(Holders(ip)) >= 2 => \E d \in report.dups : d[1] = ip
    /\ report.clean <=> report.dups = {}
    /\ assignments = pre.m /\ file = pre.f /\ env = pre.e

\* two keys share an ip and the report names the ip with both
C17_Witness ==
  /\ op.name = "CheckDuplicates"
  /\ ~report.clean
  /\ \E d \in report.dups : Cardinality(d[2]) = 2 /\ d[2] = Holders(d[1])

\* no two keys of m map to the same ip
NoSharedIP(m) == \A k1, k2 \in DOMAIN m : m[k1] = m[k2] => k1 = k2

\* C18: a call of Assign (with or without a requested ip), Remove or AutoAssign
\* (either mode), whether it succeeds or fails, that begins with a ledger in
\* which no two keys share an ip ends with such a ledger; so it is after any
\* sequence of these calls.
C18_UniqueIPsPreserved ==
  (op.name \in {"Assign", "Remove", "AutoAssign"} /\ NoSharedIP(pre.m))
  => NoSharedIP(assignments)

\* an Assign that added a second entry to a ledger without shared ips
C18_Witness ==
  /\ op.name = "Assign" /\ err = NoErr
  /\ NoSharedIP(pre.m) /\ pre.m # EmptyMap
  /\ Cardinality(DOMAIN assignments) = Cardinality(DOMAIN pre.m) + 1
  /\ NoSharedIP(assignments)

\* the least suffix of the range that was no ledger value when the call began
LeastFree == CHOOSE n \in FreeAtStart : \A k \in FreeAtStart : n <= k

\* C19: Assign without a requested ip, when some suffix of [Start, End] is
\* unused, maps the key to Base.N in the ledger, N being the least suffix with
\* Start <= N <= End that is the ip of no ledger entry; it fails only if the
\* write of the ledger file fails, and the ip lies inside the range.
C19_DerivesLeastFree ==
  (AssignDerived /\ FreeAtStart # {}) =>
    /\ err.kind \in {"none", "IOFailure"}
    /\ MapGet(assignments, OpKey) = CandidateIP(cfg.Base, LeastFree)
    /\ \A n \in cfg.Start..cfg.End :
         n < LeastFree => CandidateIP(cfg.Base, n) \in UsedIPs(pre.m)
    /\ SuffixOf(MapGet(assignments, OpKey)) \in cfg.Start..cfg.End
    /\ \A k \in (DOMAIN assignments) \ {OpKey} :
         k \in DOMAIN pre.m /\ assignments[k] = pre.m[k]

\* the only free suffix is End itself, above a used Start
C19_Witness ==
  /\ AssignDerived /\ err = NoErr
  /\ FreeAtStart = { cfg.End }
  /\ cfg.End > cfg.Start
  /\ MapGet(assignments, OpKey) = CandidateIP(cfg.Base, cfg.End)
  /\ MapGet(pre.m, OpKey) = EmptyStr

\* ip starts with Base followed by a dot and has three dots in all
WellFormed(ip) ==
  /\ Len(ip) > Len(cfg.Base)
  /\ SubSeq(ip, 1, Len(cfg.Base)) = cfg.Base
  /\ ip[Len(cfg.Base) + 1] = "."
  /\ Cardinality({ i \in 1..Len(ip) : ip[i] = "." }) = 3

\* C20: Assign with a requested ip that lacks the prefix Base + "." or does not
\* split on "." into four components fails with the invalid-address error and
\* leaves the ledger, the ledger file and the .env files as they were; a
\* requested ip that has both is not rejected as invalid, whatever its suffix.
C20_InvalidAddressRejected ==
  AssignRequested =>
    /\ ~WellFormed(op.ip) =>
         /\ err = InvalidAddress(op.ip)
         /\ assignments = pre.m /\ file = pre.f /\ env = pre.e
    /\ WellFormed(op.ip) => err.kind # "InvalidAddress"
    /\ (WellFormed(op.ip) /\ SuffixOf(op.ip) \notin cfg.Start..cfg.End
          /\ OtherOwners = {} /\ err.kind # "IOFailure") =>
         (err = NoErr /\ MapGet(assignments, OpKey) = op.ip)

\* a requested ip with the prefix and five components, refused with the
\* ledger, which holds entries, left alone
C20_Witness ==
  /\ AssignRequested
  /\ HasPrefix(op.ip, cfg.Base \o << "." >>)
  /\ ~WellFormed(op.ip)
  /\ err = InvalidAddress(op.ip)
  /\ pre.m # EmptyMap /\ assignments = pre.m /\ file = pre.f

\* the results a second AutoAssign(execute=true), run on the state the last
\* call left, can have, for every storage fault it could meet
SecondBatchRuns ==
  UNION { AutoAssign(assignments, file, env, cfg, catalog, TRUE, failAt,
                     failKind, envFault) :
            failAt \in 0..Cardinality(catalog),
            failKind \in SaveFaults \ {"none"},
            envFault \in BOOLEAN }

\* C21: after AutoAssign(execute=true) has returned without error, every
\* repository of the catalog has an assignment in the ledger (and, if the
\* batch committed anything, in the ledger file too), the scan of unassigned
\* repositories is empty, and a second AutoAssign(execute=true) returns
\* without error, commits nothing and writes nothing.
C21_BatchLeavesNoneUnassigned ==
  (BatchExecuted /\ err = NoErr) =>
    /\ \A r \in catalog : MapGet(assignments, Key(r[1], r[2])) # EmptyStr
    /\ Len(plan) > 0 =>
         \A r \in catalog :
           MapGet(PersistedLedger, Key(r[1], r[2]))
             = MapGet(assignments, Key(r[1], r[2]))
    /\ getUnassignedRepositories(assignments, catalog) = << >>
    /\ \A r \in SecondBatchRuns :
         /\ r.err = NoErr /\ r.plan = << >>
         /\ r.m = assignments /\ r.f = file /\ r.e = env

\* a batch that committed both repositories of the catalog
C21_Witness ==
  /\ BatchExecuted /\ err = NoErr
  /\ Len(PreUnassigned) = 2 /\ Len(plan) = 2
  /\ \A r \in catalog : MapGet(assignments, Key(r[1], r[2])) # EmptyStr
  /\ getUnassignedRepositories(assignments, catalog) = << >>

\* the last call ran a successful Assign for key k, itself or inside a batch
AssignedTo(k) ==
  \/ op.name = "Assign" /\ OpKey = k /\ err = NoErr
  \/ BatchExecuted /\ \E j \in 1..Len(plan) : plan[j][1] = k

\* C22: Remove leaves every .env file as it was, so after a successful Remove
\* the repository's .env still has the LOOPBACK_IP line it had; a .env file
\* is changed only by a call that ran a successful Assign for its repository
\* (Assign itself, or AutoAssign calling it).
C22_RemoveLeavesEnvFiles ==
  /\ op.name = "Remove" => env = pre.e
  /\ \A k \in DOMAIN env : env[k] # pre.e[k] => AssignedTo(k)

\* a successful Remove of a repository whose .env holds a LOOPBACK_IP line
C22_Witness ==
  /\ op.name = "Remove" /\ err = NoErr
  /\ OpKey \in DOMAIN env /\ OpKey \in DOMAIN pre.m
  /\ OpKey \notin DOMAIN assignments
  /\ env[OpKey].exists
  /\ \E i \in 1..Len(Split(env[OpKey].data, "\n")) :
       IsLoopbackLine(Split(env[OpKey].data, "\n")[i])
  /\ env = pre.e

====
